---- MODULE Spec2Model ----
(***************************************************************************)
(* Model of the MedicationApp class of src/script.js: the Medication Store *)
(* (this.medications), the Action Log (this.history), their localStorage   *)
(* blobs, the notification permission flag, the setTimeout timers armed by *)
(* scheduleNotificationForTime and the confirmation dialog.                *)
(*                                                                         *)
(* Wall-clock instants are integers (clock ticks); a calendar day is       *)
(* TicksPerDay ticks long and a dose time "HH:MM" is the tick of the day   *)
(* it designates.  Date.now().toString() and toISOString() are injective   *)
(* renderings of the instant and are represented by the instant itself;    *)
(* toDateString() keeps the calendar day only.                             *)
(***************************************************************************)
EXTENDS Integers, Sequences, FiniteSets, Bags, TLC

\* ---------------------------------------------------------------- bounds
TicksPerDay == 2
MaxDay == 1
MaxMeds == 2
MaxHist == 2
MaxTimers == 2
MaxSteps == 6
MaxListed == 3

MaxNow == (MaxDay + 1) * TicksPerDay - 1

\* The setItem calls of one saveData(): medications, history, settings.
WritesPerSave == 3

\* The dose times offered by the form's time inputs: an early and a late one.
DoseTimes == {0, 1}
\* The dose-time lists a valid form can hold (1 or 2 filled time inputs).
TimeLists == {<<a>> : a \in DoseTimes} \cup {<<a, b>> : a \in DoseTimes, b \in DoseTimes}
MedNames == {"Aspirin"}
ActionKinds == {"taken", "missed", "skipped"}
\* The changes made on the settings screen: the sound checkbox and the text
\* size select (the other two checkboxes have the sound checkbox's listener).
SettingChoices ==
    ({"soundEnabled"} \X BOOLEAN) \cup ({"textSize"} \X {"normal", "large"})

VARIABLES
    now,                     \* the wall clock (new Date(), Date.now())
    medications,             \* this.medications
    history,                 \* this.history
    lsMedications,           \* localStorage 'seniorMed_medications'
    lsHistory,               \* localStorage 'seniorMed_history'
    notificationPermission,  \* this.notificationPermission
    permissionUI,            \* where the permission request stands
    timers,                  \* the outstanding setTimeout callbacks (a bag)
    confirmDialog,           \* the callback held by the confirm-yes button
    reminders,               \* the Notification objects created so far (a bag)
    steps,                   \* the number of steps taken so far
    settings,                \* this.settings
    lsSettings,              \* localStorage 'seniorMed_settings'
    exported,                \* the file written by the last exportData()
    writesAllowed,           \* how many setItem calls of a saveData() succeed
    historyList              \* sortedHistory of the last renderHistory()

vars == <<now, medications, history, lsMedications, lsHistory,
          notificationPermission, permissionUI, timers, confirmDialog, reminders, steps,
          settings, lsSettings, exported, writesAllowed, historyList>>

\* ------------------------------------------------------------ pure helpers
\* new Date().toDateString(): the calendar day of an instant.
toDateString(t) == t \div TicksPerDay

\* localStorage.getItem of a key never written returns null.
NoBlob == [missing |-> TRUE]
\* JSON.stringify / JSON.parse of the plain data the app stores.
Stringify(v) == [missing |-> FALSE, json |-> v]
Parse(b) == b.json

NoDialog == [kind |-> "none"]

\* The constructor's this.settings.
DefaultSettings ==
    [soundEnabled |-> TRUE, vibrationEnabled |-> TRUE, highContrast |-> FALSE,
     textSize |-> "normal"]

\* { ...a, ...b }: b's properties over a's.
spread(a, b) ==
    [k \in (DOMAIN a) \cup (DOMAIN b) |-> IF k \in DOMAIN b THEN b[k] ELSE a[k]]

\* loadData() on a fresh instance: a blob that is missing leaves the empty
\* array of the constructor.
loadCollection(blob) ==
    IF blob.missing THEN <<>> ELSE Parse(blob)

\* loadData()'s settings branch: the stored settings over the current ones.
loadSettings(sett, blob) ==
    IF blob.missing THEN sett ELSE spread(sett, Parse(blob))

\* No export was made yet.
NoFile == [kind |-> "none"]

\* A top-level property of a JSON document: not there, an array, an object,
\* or a value of another type (a string, a number).
AbsentField == [kind |-> "absent"]
ScalarField == [kind |-> "scalar"]
ArrayField(v) == [kind |-> "array", value |-> v]
ObjectField(v) == [kind |-> "object", value |-> v]

\* exportData(): the document JSON.stringify writes to the downloaded file.
exportDocument(meds, hist, sett, clock) ==
    [kind |-> "json",
     data |-> [medications |-> ArrayField(meds), history |-> ArrayField(hist),
               settings |-> ObjectField(sett), exportDate |-> clock,
               version |-> "1.0"]]

\* importData(): data.medications && Array.isArray(data.medications).
importMedications(meds, data) ==
    IF data.medications.kind = "array" THEN data.medications.value ELSE meds

\* Mutant of importHistory: the history of the document is never taken over.
importHistoryIgnored(hist, data) == hist

\* importData(): data.history && Array.isArray(data.history).
importHistory(hist, data) ==
    IF data.history.kind = "array" THEN data.history.value ELSE hist

\* importData(): data.settings && typeof data.settings === 'object'.
importSettings(sett, data) ==
    IF data.settings.kind = "object" THEN spread(sett, data.settings.value) ELSE sett

\* Array.prototype.sort() of the "HH:MM" strings of the form (at most two).
SortTimes(ts) ==
    IF Len(ts) = 2 /\ ts[2] < ts[1] THEN <<ts[2], ts[1]>> ELSE ts

\* this.medications.find(med => med.id === medicationId) !== undefined
medicationKnown(meds, medicationId) ==
    \E i \in 1..Len(meds) : meds[i].id = medicationId

\* this.medications.find(...): the first medication with that id.
findMedication(meds, medicationId) ==
    meds[CHOOSE i \in 1..Len(meds) :
            /\ meds[i].id = medicationId
            /\ \A j \in 1..(i - 1) : meds[j].id # medicationId]

\* Mutant of isMedicationTakenToday: the comparison with today's date is lost.
RECURSIVE isTakenOnAnyDay(_, _, _, _)
isTakenOnAnyDay(hist, medicationId, time, clock) ==
    IF hist = <<>> THEN FALSE
    ELSE \/ /\ Head(hist).medicationId = medicationId
            /\ Head(hist).scheduledTime = time
            /\ Head(hist).action = "taken"
         \/ isTakenOnAnyDay(Tail(hist), medicationId, time, clock)

\* isMedicationTakenToday: history.some(...) scanned entry by entry.
RECURSIVE isMedicationTakenToday(_, _, _, _)
isMedicationTakenToday(hist, medicationId, time, clock) ==
    IF hist = <<>> THEN FALSE
    ELSE \/ /\ Head(hist).medicationId = medicationId
            /\ Head(hist).scheduledTime = time
            /\ Head(hist).date = toDateString(clock)
            /\ Head(hist).action = "taken"
         \/ isMedicationTakenToday(Tail(hist), medicationId, time, clock)

\* Mutant of recordMedicationAction: the entry is appended without the
\* lookup of the medication, with an empty name when there is none.
recordWithoutLookup(meds, hist, medicationId, action, time, clock) ==
    Append(hist, [id |-> clock,
                  medicationId |-> medicationId,
                  medicationName |-> IF medicationKnown(meds, medicationId)
                                     THEN findMedication(meds, medicationId).name
                                     ELSE "",
                  action |-> action,
                  scheduledTime |-> time,
                  actualTime |-> clock,
                  date |-> toDateString(clock)])

\* Mutant of recordMedicationAction: the entry carries no name snapshot.
recordWithoutName(meds, hist, medicationId, action, time, clock) ==
    IF ~medicationKnown(meds, medicationId) THEN hist
    ELSE Append(hist, [id |-> clock,
                       medicationId |-> medicationId,
                       medicationName |-> "",
                       action |-> action,
                       scheduledTime |-> time,
                       actualTime |-> clock,
                       date |-> toDateString(clock)])

\* recordMedicationAction applied to a log: the log afterwards.
recordMedicationAction(meds, hist, medicationId, action, time, clock) ==
    IF ~medicationKnown(meds, medicationId) THEN hist
    ELSE Append(hist, [id |-> clock,
                       medicationId |-> medicationId,
                       medicationName |-> findMedication(meds, medicationId).name,
                       action |-> action,
                       scheduledTime |-> time,
                       actualTime |-> clock,
                       date |-> toDateString(clock)])

\* Mutant of removeMedicationRecord: splices out the first matching entry only.
removeFirstMedicationRecord(hist, medicationId, time, clock) ==
    LET Match(i) == /\ hist[i].medicationId = medicationId
                    /\ hist[i].scheduledTime = time
                    /\ hist[i].date = toDateString(clock)
        hits == {i \in 1..Len(hist) : Match(i)}
    IN IF hits = {} THEN hist
       ELSE LET first == CHOOSE i \in hits : \A j \in hits : i <= j
            IN SubSeq(hist, 1, first - 1) \o SubSeq(hist, first + 1, Len(hist))

\* Mutant of removeMedicationRecord: today's entries of the medication go,
\* whatever their scheduled time.
removeRecordsOfMedication(hist, medicationId, time, clock) ==
    LET Keep(entry) == ~(/\ entry.medicationId = medicationId
                         /\ entry.date = toDateString(clock))
    IN SelectSeq(hist, Keep)

\* Mutant of removeMedicationRecord: the entries of the slot go, whatever their day.
removeRecordOfAnyDay(hist, medicationId, time, clock) ==
    LET Keep(entry) == ~(/\ entry.medicationId = medicationId
                         /\ entry.scheduledTime = time)
    IN SelectSeq(hist, Keep)

\* removeMedicationRecord applied to a log: the log afterwards.
removeMedicationRecord(hist, medicationId, time, clock) ==
    LET Keep(entry) == ~(/\ entry.medicationId = medicationId
                         /\ entry.scheduledTime = time
                         /\ entry.date = toDateString(clock))
    IN SelectSeq(hist, Keep)

\* groupMedicationsByTime()[time]: one occurrence of a medication per
\* occurrence of time in its times array, in store order.
RECURSIVE timesContaining(_, _)
timesContaining(ts, time) ==
    IF ts = <<>> THEN 0
    ELSE (IF Head(ts) = time THEN 1 ELSE 0) + timesContaining(Tail(ts), time)

\* Mutant of groupMedicationsByTime: a time group keeps its first medication only.
groupFirstMedicationOnly(meds, time) ==
    LET hits == {i \in 1..Len(meds) : timesContaining(meds[i].times, time) > 0}
    IN IF hits = {} THEN <<>>
       ELSE <<meds[CHOOSE i \in hits : \A j \in hits : i <= j]>>

RECURSIVE groupMedicationsByTime(_, _)
groupMedicationsByTime(meds, time) ==
    IF meds = <<>> THEN <<>>
    ELSE [i \in 1..timesContaining(Head(meds).times, time) |-> Head(meds)]
         \o groupMedicationsByTime(Tail(meds), time)

\* Mutant of resolveLoop: marks every medication of the group, taken or not.
RECURSIVE resolveLoopUnchecked(_, _, _, _, _)
resolveLoopUnchecked(group, meds, hist, time, clock) ==
    IF group = <<>> THEN hist
    ELSE resolveLoopUnchecked(Tail(group), meds,
                              recordMedicationAction(meds, hist, Head(group).id, "taken", time, clock),
                              time, clock)

\* The forEach loop of resolveAllForTime over a time group: the log afterwards.
RECURSIVE resolveLoop(_, _, _, _, _)
resolveLoop(group, meds, hist, time, clock) ==
    IF group = <<>> THEN hist
    ELSE resolveLoop(Tail(group), meds,
                     IF ~isMedicationTakenToday(hist, Head(group).id, time, clock)
                     THEN recordMedicationAction(meds, hist, Head(group).id, "taken", time, clock)
                     ELSE hist,
                     time, clock)

\* Mutant of armTarget: "<" for "<=", so that a time equal to now stays today.
armTargetNotStrict(time, clock) ==
    LET scheduledTime == toDateString(clock) * TicksPerDay + time
    IN IF scheduledTime < clock THEN scheduledTime + TicksPerDay ELSE scheduledTime

\* Mutant of armTarget: a time that has passed is moved on by two days.
armTargetSkipsDay(time, clock) ==
    LET scheduledTime == toDateString(clock) * TicksPerDay + time
    IN IF scheduledTime <= clock THEN scheduledTime + 2 * TicksPerDay ELSE scheduledTime

\* scheduleNotificationForTime: the instant the new timer is set for.
armTarget(time, clock) ==
    LET scheduledTime == toDateString(clock) * TicksPerDay + time
    IN IF scheduledTime <= clock THEN scheduledTime + TicksPerDay ELSE scheduledTime

\* scheduleNotificationForTime(medication, time): the timer it arms.
newTimer(medication, time, clock) ==
    [medication |-> medication, time |-> time, due |-> armTarget(time, clock)]

\* scheduleNotifications(medication): the timers it arms (a bag).
RECURSIVE timersForTimes(_, _, _)
timersForTimes(medication, ts, clock) ==
    IF ts = <<>> THEN EmptyBag
    ELSE SetToBag({newTimer(medication, Head(ts), clock)})
         (+) timersForTimes(medication, Tail(ts), clock)

scheduleNotifications(medication, permission, clock) ==
    IF ~permission THEN EmptyBag
    ELSE timersForTimes(medication, medication.times, clock)

\* The visibilitychange handler's forEach over app.medications.
RECURSIVE scheduleAll(_, _, _)
scheduleAll(meds, permission, clock) ==
    IF meds = <<>> THEN EmptyBag
    ELSE scheduleNotifications(Head(meds), permission, clock)
         (+) scheduleAll(Tail(meds), permission, clock)

\* showMedicationNotification: the Notification objects it creates (a bag).
showMedicationNotification(medication, time, permission, clock) ==
    IF ~permission THEN EmptyBag
    ELSE SetToBag({[medicationId |-> medication.id, time |-> time,
                    day |-> toDateString(clock)]})

\* The files the user may pick for an import besides an export of this
\* application: a file that is not JSON and the documents whose top-level
\* properties are absent, of another type, or containers.  The medication of
\* a document is one that was deactivated by hand.
InactiveMedication ==
    [id |-> 0, name |-> "Aspirin", timesPerDay |-> 1, times |-> <<0>>,
     isActive |-> FALSE]
ForeignEntry ==
    [id |-> 0, medicationId |-> 0, medicationName |-> "Aspirin", action |-> "taken",
     scheduledTime |-> 0, actualTime |-> 0, date |-> 0]
MedicationsFields == {ScalarField, ArrayField(<<InactiveMedication>>)}
HistoryFields == {AbsentField, ArrayField(<<ForeignEntry>>)}
SettingsFields == {AbsentField, ObjectField([soundEnabled |-> FALSE])}
ImportFiles ==
    {[kind |-> "text"]}
    \cup {[kind |-> "json",
           data |-> [medications |-> m, history |-> h, settings |-> st,
                     exportDate |-> 0, version |-> "1.0"]] :
             m \in MedicationsFields, h \in HistoryFields, st \in SettingsFields}

\* ------------------------------------------------------------------- Init
\* A fresh install: the constructor's fields, empty localStorage, init()'s
\* permission check not yet answered.
Init ==
    /\ now = 0
    /\ medications = <<>>
    /\ history = <<>>
    /\ lsMedications = NoBlob
    /\ lsHistory = NoBlob
    /\ notificationPermission = FALSE
    /\ permissionUI = "pending"
    /\ timers = EmptyBag
    /\ confirmDialog = NoDialog
    /\ reminders = EmptyBag
    /\ steps = 0
    /\ settings = DefaultSettings
    /\ lsSettings = NoBlob
    /\ exported = NoFile
    /\ writesAllowed = WritesPerSave
    /\ historyList = <<>>

\* The same fresh install, followed to the last modelled day.
InitWholeDays ==
    /\ now = 0
    /\ medications = <<>>
    /\ history = <<>>
    /\ lsMedications = NoBlob
    /\ lsHistory = NoBlob
    /\ notificationPermission = FALSE
    /\ permissionUI = "pending"
    /\ timers = EmptyBag
    /\ confirmDialog = NoDialog
    /\ reminders = EmptyBag
    /\ steps = -1
    /\ settings = DefaultSettings
    /\ lsSettings = NoBlob
    /\ exported = NoFile
    /\ writesAllowed = WritesPerSave
    /\ historyList = <<>>

\* ---------------------------------------------------------------- actions
\* saveData(): both collections are written wholesale.
saveMedications(meds) == Stringify(meds)
\* Mutant of saveHistory: the log is written as it was before its last entry.
saveHistoryWithoutLast(hist) == Stringify(SubSeq(hist, 1, Len(hist) - 1))
saveHistory(hist) == Stringify(hist)
saveSettings(sett) == Stringify(sett)

\* Mutant of setItem: the write succeeds whatever the quota.
setItemNeverThrows(k, blob, value) == value

\* The k-th localStorage.setItem of saveData()'s try block: the blob of its key
\* afterwards.  A call that throws QuotaExceededError leaves its key and the
\* keys of the calls after it as they were; the catch block ends saveData().
setItem(k, blob, value) ==
    IF k <= writesAllowed THEN value ELSE blob

\* One more of the MaxSteps steps (handler runs and clock ticks) explored.
\* A run that starts with a negative count is followed to the last modelled
\* day, however many steps it takes.
CountStep ==
    IF steps < 0
    THEN steps' = steps
    ELSE /\ steps < MaxSteps
         /\ steps' = steps + 1

\* Time passes.  A timer whose delay has elapsed runs before the clock moves on.
Tick ==
    /\ CountStep
    /\ now < MaxNow
    /\ \A tm \in BagToSet(timers) : tm.due > now
    /\ now' = now + 1
    /\ UNCHANGED <<medications, history, lsMedications, lsHistory,
                   settings, lsSettings, exported,
                   notificationPermission, permissionUI, timers, confirmDialog, reminders,
                   writesAllowed, historyList>>

\* The page is loaded again: constructor, init(), loadData().  Timers and
\* the fields of the previous instance are gone; nothing is armed here.
Start ==
    /\ CountStep
    /\ medications' = loadCollection(lsMedications)
    /\ history' = loadCollection(lsHistory)
    /\ notificationPermission' = FALSE
    /\ permissionUI' = "pending"
    /\ timers' = EmptyBag
    /\ confirmDialog' = NoDialog
    /\ settings' = loadSettings(DefaultSettings, lsSettings)
    /\ UNCHANGED <<now, lsMedications, lsHistory, lsSettings, reminders, exported,
                   writesAllowed, historyList>>

\* checkNotificationPermission(): the answer to init()'s permission request.
CheckNotificationPermission(granted) ==
    /\ CountStep
    /\ permissionUI = "pending"
    /\ notificationPermission' = granted
    /\ permissionUI' = IF granted THEN "closed" ELSE "modal"
    /\ UNCHANGED <<now, medications, history, lsMedications, lsHistory,
                   settings, lsSettings, exported,
                   timers, confirmDialog, reminders,
                   writesAllowed, historyList>>

\* showNotificationModal(): the enable button's handler.
EnableNotifications(granted) ==
    /\ CountStep
    /\ permissionUI = "modal"
    /\ notificationPermission' = granted
    /\ permissionUI' = "closed"
    /\ UNCHANGED <<now, medications, history, lsMedications, lsHistory,
                   settings, lsSettings, exported,
                   timers, confirmDialog, reminders,
                   writesAllowed, historyList>>

\* showNotificationModal(): the skip button's handler.
SkipNotifications ==
    /\ CountStep
    /\ permissionUI = "modal"
    /\ permissionUI' = "closed"
    /\ UNCHANGED <<now, medications, history, lsMedications, lsHistory,
                   settings, lsSettings, exported,
                   notificationPermission, timers, confirmDialog, reminders,
                   writesAllowed, historyList>>

\* addMedication(medicationData): the medication object it builds.
newMedication(name, ts, clock) ==
    [id |-> clock, name |-> name, timesPerDay |-> Len(ts), times |-> ts,
     isActive |-> TRUE]

\* handleMedicationSubmit() with a valid form, and the addMedication() it calls.
HandleMedicationSubmit(name, ts) ==
    LET medication == newMedication(name, SortTimes(ts), now)
        armed == scheduleNotifications(medication, notificationPermission, now)
    IN /\ CountStep
       /\ Len(medications) < MaxMeds
       /\ BagCardinality(timers (+) armed) <= MaxTimers
       /\ medications' = Append(medications, medication)
       /\ lsMedications' = setItem(1, lsMedications, saveMedications(medications'))
       /\ lsHistory' = setItem(2, lsHistory, saveHistory(history))
       /\ lsSettings' = setItem(3, lsSettings, saveSettings(settings))
       /\ timers' = timers (+) armed
       /\ UNCHANGED <<now, history, notificationPermission, permissionUI,
                      confirmDialog, reminders, settings, exported,
                      writesAllowed, historyList>>

\* Mutant of showConfirmDialog: a callback the button already holds stays.
showConfirmDialogKeepsFirst(held, onConfirm) ==
    IF held.kind = "none" THEN onConfirm ELSE held

\* showConfirmDialog(title, message, onConfirm): yesBtn.onclick is assigned,
\* so the button holds the callback of this call, whatever it held before.
showConfirmDialog(held, onConfirm) == onConfirm

\* deleteMedication(medicationId): only opens the confirmation dialog.
DeleteMedication(medicationId) ==
    /\ CountStep
    /\ confirmDialog' = showConfirmDialog(confirmDialog,
                            [kind |-> "delete", medicationId |-> medicationId])
    /\ UNCHANGED <<now, medications, history, lsMedications, lsHistory,
                   settings, lsSettings, exported,
                   notificationPermission, permissionUI, timers, reminders,
                   writesAllowed, historyList>>

\* clearAllData(): only opens the confirmation dialog.
ClearAllData ==
    /\ CountStep
    /\ confirmDialog' = showConfirmDialog(confirmDialog, [kind |-> "clear"])
    /\ UNCHANGED <<now, medications, history, lsMedications, lsHistory,
                   settings, lsSettings, exported,
                   notificationPermission, permissionUI, timers, reminders,
                   writesAllowed, historyList>>

\* markMedicationTaken / markMedicationMissed / markMedicationSkipped.
MarkMedication(medicationId, action, time) ==
    /\ CountStep
    /\ Len(history) < MaxHist
    /\ history' = recordMedicationAction(medications, history, medicationId, action, time, now)
    /\ IF medicationKnown(medications, medicationId)
       THEN /\ lsMedications' = setItem(1, lsMedications, saveMedications(medications))
            /\ lsHistory' = setItem(2, lsHistory, saveHistory(history'))
            /\ lsSettings' = setItem(3, lsSettings, saveSettings(settings))
       ELSE UNCHANGED <<lsMedications, lsHistory, lsSettings>>
    /\ UNCHANGED <<now, medications, notificationPermission, permissionUI,
                   timers, confirmDialog, reminders, settings, exported,
                   writesAllowed, historyList>>

\* toggleMedicationStatus(medicationId, time).
ToggleMedicationStatus(medicationId, time) ==
    IF isMedicationTakenToday(history, medicationId, time, now)
    THEN /\ CountStep
         /\ confirmDialog' = showConfirmDialog(confirmDialog,
                                 [kind |-> "undo", medicationId |-> medicationId,
                                  time |-> time])
         /\ UNCHANGED <<now, medications, history, lsMedications, lsHistory,
                        settings, lsSettings, exported,
                        notificationPermission, permissionUI, timers, reminders,
                        writesAllowed, historyList>>
    ELSE MarkMedication(medicationId, "taken", time)

\* resolveAllForTime(time).
ResolveAllForTime(time) ==
    LET group == groupMedicationsByTime(medications, time)
        after == resolveLoop(group, medications, history, time, now)
    IN /\ CountStep
       /\ Len(after) <= MaxHist
       /\ history' = after
       /\ IF after # history
          THEN /\ lsMedications' = setItem(1, lsMedications, saveMedications(medications))
               /\ lsHistory' = setItem(2, lsHistory, saveHistory(after))
               /\ lsSettings' = setItem(3, lsSettings, saveSettings(settings))
          ELSE UNCHANGED <<lsMedications, lsHistory, lsSettings>>
       /\ UNCHANGED <<now, medications, notificationPermission, permissionUI,
                      timers, confirmDialog, reminders, settings, exported,
                      writesAllowed, historyList>>

\* The confirm-yes button: runs the callback of the dialog opened last.
ConfirmYes ==
    /\ CountStep
    /\ confirmDialog.kind # "none"
    /\ confirmDialog' = NoDialog
    /\ \/ /\ confirmDialog.kind = "delete"
          /\ medications' = SelectSeq(medications,
                                LAMBDA med : med.id # confirmDialog.medicationId)
          /\ lsMedications' = setItem(1, lsMedications, saveMedications(medications'))
          /\ lsHistory' = setItem(2, lsHistory, saveHistory(history))
          /\ lsSettings' = setItem(3, lsSettings, saveSettings(settings))
          /\ UNCHANGED history
       \/ /\ confirmDialog.kind = "undo"
          /\ history' = removeMedicationRecord(history, confirmDialog.medicationId,
                                               confirmDialog.time, now)
          /\ lsMedications' = setItem(1, lsMedications, saveMedications(medications))
          /\ lsHistory' = setItem(2, lsHistory, saveHistory(history'))
          /\ lsSettings' = setItem(3, lsSettings, saveSettings(settings))
          /\ UNCHANGED medications
       \/ /\ confirmDialog.kind = "clear"
          /\ medications' = <<>>
          /\ history' = <<>>
          /\ lsMedications' = NoBlob
          /\ lsHistory' = NoBlob
          /\ UNCHANGED lsSettings
    /\ UNCHANGED <<now, notificationPermission, permissionUI, timers, reminders,
                   settings, exported,
                   writesAllowed, historyList>>

\* The confirm-no button (or Escape): the dialog closes, nothing runs.
ConfirmNo ==
    /\ CountStep
    /\ confirmDialog.kind # "none"
    /\ confirmDialog' = NoDialog
    /\ UNCHANGED <<now, medications, history, lsMedications, lsHistory,
                   settings, lsSettings, exported,
                   notificationPermission, permissionUI, timers, reminders,
                   writesAllowed, historyList>>

\* The change listeners of the settings screen: one property is set and the
\* data saved.
ChangeSetting(key, value) ==
    /\ CountStep
    /\ settings' = [settings EXCEPT ![key] = value]
    /\ lsMedications' = setItem(1, lsMedications, saveMedications(medications))
    /\ lsHistory' = setItem(2, lsHistory, saveHistory(history))
    /\ lsSettings' = setItem(3, lsSettings, saveSettings(settings'))
    /\ UNCHANGED <<now, medications, history, notificationPermission, permissionUI,
                   timers, confirmDialog, reminders, exported,
                   writesAllowed, historyList>>

\* exportData(): the state is written to a file the user keeps.
ExportData ==
    /\ CountStep
    /\ exported' = exportDocument(medications, history, settings, now)
    /\ UNCHANGED <<now, medications, history, lsMedications, lsHistory,
                   settings, lsSettings,
                   notificationPermission, permissionUI, timers, confirmDialog, reminders,
                   writesAllowed, historyList>>

\* importData(): the reader.onload callback on the chosen file.  A file that
\* is not JSON makes JSON.parse throw: the catch block changes nothing.
ImportData(file) ==
    /\ CountStep
    /\ file.kind # "none"
    /\ IF file.kind = "json"
       THEN /\ Len(importMedications(medications, file.data)) <= MaxMeds
            /\ Len(importHistory(history, file.data)) <= MaxHist
            /\ medications' = importMedications(medications, file.data)
            /\ history' = importHistory(history, file.data)
            /\ settings' = importSettings(settings, file.data)
            /\ lsMedications' = setItem(1, lsMedications, saveMedications(medications'))
            /\ lsHistory' = setItem(2, lsHistory, saveHistory(history'))
            /\ lsSettings' = setItem(3, lsSettings, saveSettings(settings'))
       ELSE UNCHANGED <<medications, history, settings,
                        lsMedications, lsHistory, lsSettings>>
    /\ UNCHANGED <<now, notificationPermission, permissionUI, timers, confirmDialog,
                   reminders, exported,
                   writesAllowed, historyList>>

\* The visibilitychange listener; documentHidden is document.hidden.
VisibilityChange(documentHidden) ==
    LET armed == scheduleAll(medications, notificationPermission, now)
    IN /\ CountStep
       /\ IF ~documentHidden /\ notificationPermission
          THEN /\ BagCardinality(timers (+) armed) <= MaxTimers
               /\ timers' = timers (+) armed
          ELSE UNCHANGED timers
       /\ UNCHANGED <<now, medications, history, lsMedications, lsHistory,
                      settings, lsSettings, exported,
                      notificationPermission, permissionUI, confirmDialog, reminders,
                      writesAllowed, historyList>>

\* Mutant of timersAfterFire: the callback does not arm the pair again.
timersAfterFireNoRearm(outstanding, tm, clock) ==
    outstanding (-) SetToBag({tm})

\* The timers once the callback of tm has run: tm is spent, and the
\* callback's scheduleNotificationForTime has armed its pair again.
timersAfterFire(outstanding, tm, clock) ==
    (outstanding (-) SetToBag({tm}))
        (+) SetToBag({newTimer(tm.medication, tm.time, clock)})

\* The setTimeout callback of scheduleNotificationForTime runs.
TimerFires(tm) ==
    /\ CountStep
    /\ BagIn(tm, timers)
    /\ tm.due <= now
    /\ reminders' = reminders (+) showMedicationNotification(tm.medication, tm.time,
                                                            notificationPermission, now)
    /\ timers' = timersAfterFire(timers, tm, now)
    /\ UNCHANGED <<now, medications, history, lsMedications, lsHistory,
                   settings, lsSettings, exported,
                   notificationPermission, permissionUI, confirmDialog,
                   writesAllowed, historyList>>

\* The browser's storage quota as saveData() meets it: from now on the first
\* allowed setItem calls of a saveData() succeed and the next one throws.
StorageQuota(allowed) ==
    /\ CountStep
    /\ writesAllowed' = allowed
    /\ UNCHANGED <<now, medications, history, lsMedications, lsHistory,
                   settings, lsSettings, exported,
                   notificationPermission, permissionUI, timers, confirmDialog,
                   reminders, historyList>>

\* The wall clock is set back (by the user, by a time synchronisation).  The
\* delay of a setTimeout runs on regardless, so each timer fires at a
\* wall-clock reading that much earlier; its (medication, time) pair stays.
ClockSetBack(amount) ==
    /\ CountStep
    /\ amount \in 1..now
    /\ now' = now - amount
    /\ timers' = [tm \in {[t EXCEPT !.due = @ - amount] : t \in BagToSet(timers)}
                    |-> CopiesIn([tm EXCEPT !.due = @ + amount], timers)]
    /\ UNCHANGED <<medications, history, lsMedications, lsHistory,
                   settings, lsSettings, exported,
                   notificationPermission, permissionUI, confirmDialog,
                   reminders, writesAllowed, historyList>>

\* The comparator renderHistory passes to sort: negative when a goes first.
compareEntries(a, b) == b.actualTime - a.actualTime

\* Mutant of insertSorted: the entry goes before the entries it ties with.
RECURSIVE insertBeforeTies(_, _)
insertBeforeTies(sorted, entry) ==
    IF sorted = <<>> THEN <<entry>>
    ELSE IF compareEntries(Head(sorted), entry) < 0
         THEN <<Head(sorted)>> \o insertBeforeTies(Tail(sorted), entry)
         ELSE <<entry>> \o sorted

\* Array.prototype.sort(compare) is a stable sort: each element in turn goes
\* behind the elements already placed that compare before or equal to it.
RECURSIVE insertSorted(_, _)
insertSorted(sorted, entry) ==
    IF sorted = <<>> THEN <<entry>>
    ELSE IF compareEntries(Head(sorted), entry) <= 0
         THEN <<Head(sorted)>> \o insertSorted(Tail(sorted), entry)
         ELSE <<entry>> \o sorted

\* [...this.history].sort(...) of renderHistory.
RECURSIVE sortedHistory(_)
sortedHistory(hist) ==
    IF hist = <<>> THEN <<>>
    ELSE insertSorted(sortedHistory(SubSeq(hist, 1, Len(hist) - 1)), hist[Len(hist)])

\* renderHistory(): the entries in the order the history screen lists them.
RenderHistory ==
    /\ CountStep
    /\ historyList' = sortedHistory(history)
    /\ UNCHANGED <<now, medications, history, lsMedications, lsHistory,
                   settings, lsSettings, exported,
                   notificationPermission, permissionUI, timers, confirmDialog,
                   reminders, writesAllowed>>

\* The logs the history screen is given: up to MaxListed entries that differ
\* in their instant or in their medication, in any order (an imported log).
LogEntries ==
    {[id |-> t, medicationId |-> m, medicationName |-> "Aspirin", action |-> "taken",
      scheduledTime |-> 0, actualTime |-> t, date |-> toDateString(t)] :
        t \in 0..MaxNow, m \in 0..1}
Logs ==
    {log \in UNION {[1..n -> LogEntries] : n \in 0..MaxListed} :
        \A i \in 1..Len(log) : \A j \in 1..Len(log) : log[i] = log[j] => i = j}

\* The instance after the import of a document that holds such a log only.
InitListing ==
    /\ now = 0
    /\ medications = <<>>
    /\ history \in Logs
    /\ lsMedications = saveMedications(medications)
    /\ lsHistory = saveHistory(history)
    /\ notificationPermission = FALSE
    /\ permissionUI = "pending"
    /\ timers = EmptyBag
    /\ confirmDialog = NoDialog
    /\ reminders = EmptyBag
    /\ steps = 0
    /\ settings = DefaultSettings
    /\ lsSettings = saveSettings(settings)
    /\ exported = NoFile
    /\ writesAllowed = WritesPerSave
    /\ historyList = <<>>

\* The add form of the medication screen.  The names typed into the name
\* input, character by character: none, white space only, a name, and a
\* name with white space around it.
FormNames ==
    {<<>>, <<" ">>, <<" ", " ">>, <<"A">>, <<" ", "A", " ">>}

\* String.prototype.trim(): the white space at both ends is dropped.
RECURSIVE trimStart(_)
trimStart(str) ==
    IF str # <<>> /\ Head(str) = " " THEN trimStart(Tail(str)) ELSE str

RECURSIVE trimEnd(_)
trimEnd(str) ==
    IF str # <<>> /\ str[Len(str)] = " "
    THEN trimEnd(SubSeq(str, 1, Len(str) - 1))
    ELSE str

trim(str) == trimEnd(trimStart(str))

\* The values of the times-per-day select: nothing chosen, or a count.
SelectValues == {"", "1", "2"}

\* parseInt of the select's value; the NaN of the empty value is falsy, as 0 is.
parseInt(value) ==
    CASE value = "1" -> 1
      [] value = "2" -> 2
      [] OTHER -> 0

\* The value of a time input the user has emptied.
NoValue == -1

\* generateTimeSlots gives the form one time input per declared dose.
Forms ==
    UNION {{[name |-> n, select |-> v, slots |-> sl] :
              n \in FormNames, sl \in [1..parseInt(v) -> DoseTimes \cup {NoValue}]} :
           v \in SelectValues}

\* The for loop of handleMedicationSubmit: the values of the filled inputs.
filledTimes(slots) ==
    SelectSeq(slots, LAMBDA value : value # NoValue)

\* Mutant of formRejected: the number of filled time inputs is not checked.
formRejectedTimesUnchecked(form) ==
    \/ trim(form.name) = <<>>
    \/ parseInt(form.select) = 0

\* The three early returns of handleMedicationSubmit.
formRejected(form) ==
    \/ trim(form.name) = <<>>
    \/ parseInt(form.select) = 0
    \/ Len(filledTimes(form.slots)) # parseInt(form.select)

\* handleMedicationSubmit() on any form: a rejected form shows a toast and
\* returns, an accepted one goes to addMedication, which trims the name.
SubmitMedicationForm(form) ==
    IF formRejected(form)
    THEN /\ CountStep
         /\ UNCHANGED <<now, medications, history, lsMedications, lsHistory,
                        settings, lsSettings, exported,
                        notificationPermission, permissionUI, timers, confirmDialog,
                        reminders, writesAllowed, historyList>>
    ELSE HandleMedicationSubmit(trim(form.name), filledTimes(form.slots))

\* ---------------------------------------------------------- specifications
\* The slots the schedule screen shows a toggle button for.
StoredIds == {medications[i].id : i \in 1..Len(medications)}

Next ==
    \/ Tick
    \/ Start
    \/ \E granted \in BOOLEAN : CheckNotificationPermission(granted)
    \/ \E granted \in BOOLEAN : EnableNotifications(granted)
    \/ SkipNotifications
    \/ \E name \in MedNames, ts \in TimeLists : HandleMedicationSubmit(name, ts)
    \/ \E id \in StoredIds : DeleteMedication(id)
    \/ ClearAllData
    \/ \E id \in StoredIds, action \in ActionKinds, time \in DoseTimes :
          MarkMedication(id, action, time)
    \/ \E id \in StoredIds, time \in DoseTimes : ToggleMedicationStatus(id, time)
    \/ \E time \in DoseTimes : ResolveAllForTime(time)
    \/ ConfirmYes
    \/ ConfirmNo
    \/ \E choice \in SettingChoices : ChangeSetting(choice[1], choice[2])
    \/ ExportData
    \/ \E file \in ImportFiles \cup {exported} : ImportData(file)
    \/ \E documentHidden \in BOOLEAN : VisibilityChange(documentHidden)
    \/ \E tm \in BagToSet(timers) : TimerFires(tm)

Spec == Init /\ [][Next]_vars

\* The Notification Scheduler with the operations that feed it: the tracker's
\* operations, which read and write this.history only, are left out.
NextScheduler ==
    \/ Tick
    \/ Start
    \/ \E granted \in BOOLEAN : CheckNotificationPermission(granted)
    \/ \E granted \in BOOLEAN : EnableNotifications(granted)
    \/ SkipNotifications
    \/ \E name \in MedNames, ts \in TimeLists : HandleMedicationSubmit(name, ts)
    \/ \E id \in StoredIds : DeleteMedication(id)
    \/ ConfirmYes
    \/ ConfirmNo
    \/ \E documentHidden \in BOOLEAN : VisibilityChange(documentHidden)
    \/ \E tm \in BagToSet(timers) : TimerFires(tm)

SpecScheduler == Init /\ [][NextScheduler]_vars

\* The Adherence Tracker with the operations that feed it: the permission
\* request is never answered, so that no timer is armed.
NextTracker ==
    \/ Tick
    \/ \E name \in MedNames, ts \in TimeLists : HandleMedicationSubmit(name, ts)
    \/ \E id \in StoredIds : DeleteMedication(id)
    \/ \E id \in StoredIds, action \in ActionKinds, time \in DoseTimes :
          MarkMedication(id, action, time)
    \/ \E id \in StoredIds, time \in DoseTimes : ToggleMedicationStatus(id, time)
    \/ \E time \in DoseTimes : ResolveAllForTime(time)
    \/ ConfirmYes
    \/ ConfirmNo

SpecTracker == Init /\ [][NextTracker]_vars

\* The user interface of script.js reaches the log through toggle and
\* resolve-all only: markMedication* is not called on its own.
NextToggleOnly ==
    \/ Tick
    \/ \E name \in MedNames, ts \in TimeLists : HandleMedicationSubmit(name, ts)
    \/ \E id \in StoredIds : DeleteMedication(id)
    \/ \E id \in StoredIds, time \in DoseTimes : ToggleMedicationStatus(id, time)
    \/ \E time \in DoseTimes : ResolveAllForTime(time)
    \/ ConfirmYes
    \/ ConfirmNo

SpecToggleOnly == Init /\ [][NextToggleOnly]_vars

\* One run of the page from the permission request to the last modelled day:
\* no restart, no resume event, no deletion.  The clock advances, and the
\* browser runs a setTimeout callback once its delay has elapsed.
NextOneRun ==
    \/ Tick
    \/ \E granted \in BOOLEAN : CheckNotificationPermission(granted)
    \/ \E granted \in BOOLEAN : EnableNotifications(granted)
    \/ SkipNotifications
    \/ \E name \in MedNames, ts \in TimeLists : HandleMedicationSubmit(name, ts)
    \/ \E tm \in BagToSet(timers) : TimerFires(tm)

SpecOneRun ==
    /\ InitWholeDays
    /\ [][NextOneRun]_vars
    /\ WF_vars(Tick)
    /\ WF_vars(\E tm \in BagToSet(timers) : TimerFires(tm))

\* The ids that resolve to no stored medication: those of the deleted
\* medications the log refers to, and one that was never given.
DanglingIds ==
    ({history[i].medicationId : i \in 1..Len(history)} \cup {MaxNow}) \ StoredIds

\* The log and the medications it refers to: the slots of the stored
\* medications are toggled, and markMedication* is called with ids that are
\* not in the store.
NextRecord ==
    \/ Tick
    \/ \E name \in MedNames, ts \in TimeLists : HandleMedicationSubmit(name, ts)
    \/ \E id \in StoredIds : DeleteMedication(id)
    \/ \E id \in StoredIds, time \in DoseTimes : ToggleMedicationStatus(id, time)
    \/ \E id \in DanglingIds, action \in ActionKinds, time \in DoseTimes :
          MarkMedication(id, action, time)
    \/ ConfirmYes
    \/ ConfirmNo

SpecRecord == Init /\ [][NextRecord]_vars

\* Backup: the operations that build a state worth exporting, the export and
\* the import of an exported or a foreign file.  The permission request is
\* never answered.
NextBackup ==
    \/ Tick
    \/ \E name \in MedNames, ts \in TimeLists : HandleMedicationSubmit(name, ts)
    \/ \E id \in StoredIds, time \in DoseTimes : ToggleMedicationStatus(id, time)
    \/ ClearAllData
    \/ ConfirmYes
    \/ ConfirmNo
    \/ \E choice \in SettingChoices : ChangeSetting(choice[1], choice[2])
    \/ ExportData
    \/ \E file \in ImportFiles \cup {exported} : ImportData(file)

SpecBackup == Init /\ [][NextBackup]_vars

\* Persistence: every operation that changes the store or the log (the log
\* is written through the toggle), and the restart that reads the blobs back.
NextPersistence ==
    \/ Tick
    \/ Start
    \/ \E name \in MedNames, ts \in TimeLists : HandleMedicationSubmit(name, ts)
    \/ \E id \in StoredIds : DeleteMedication(id)
    \/ ClearAllData
    \/ \E id \in StoredIds, time \in DoseTimes : ToggleMedicationStatus(id, time)
    \/ ConfirmYes
    \/ ConfirmNo
    \/ \E file \in ImportFiles : ImportData(file)

SpecPersistence == Init /\ [][NextPersistence]_vars

\* The add form alone, with every form the user can submit; the permission
\* request is answered, so that an accepted submission arms timers.
NextForm ==
    \/ Tick
    \/ \E granted \in BOOLEAN : CheckNotificationPermission(granted)
    \/ \E form \in Forms : SubmitMedicationForm(form)

SpecForm == Init /\ [][NextForm]_vars

\* The log across midnight: everything that writes the log, and the clock.
\* No medication is deleted and the permission request is never answered.
NextDays ==
    \/ Tick
    \/ \E name \in MedNames, ts \in TimeLists : HandleMedicationSubmit(name, ts)
    \/ \E id \in StoredIds, action \in ActionKinds, time \in DoseTimes :
          MarkMedication(id, action, time)
    \/ \E id \in StoredIds, time \in DoseTimes : ToggleMedicationStatus(id, time)
    \/ \E time \in DoseTimes : ResolveAllForTime(time)
    \/ ConfirmYes
    \/ ConfirmNo

SpecDays == Init /\ [][NextDays]_vars

\* The mutations of the store and of the log while localStorage may refuse
\* writes; the permission request is answered, so that an add arms timers.
NextStorage ==
    \/ Tick
    \/ \E allowed \in 0..WritesPerSave : StorageQuota(allowed)
    \/ \E granted \in BOOLEAN : CheckNotificationPermission(granted)
    \/ \E name \in MedNames, ts \in TimeLists : HandleMedicationSubmit(name, ts)
    \/ \E id \in StoredIds : DeleteMedication(id)
    \/ \E id \in StoredIds, time \in DoseTimes : ToggleMedicationStatus(id, time)
    \/ ConfirmYes
    \/ ConfirmNo

SpecStorage == Init /\ [][NextStorage]_vars

\* The timers under a wall clock that may be set back: medications are added
\* with permission granted, the clock moves either way, and timers fire.
NextClock ==
    \/ Tick
    \/ \E amount \in 1..MaxNow : ClockSetBack(amount)
    \/ \E granted \in BOOLEAN : CheckNotificationPermission(granted)
    \/ \E name \in MedNames, ts \in TimeLists : HandleMedicationSubmit(name, ts)
    \/ \E tm \in BagToSet(timers) : TimerFires(tm)

SpecClock == Init /\ [][NextClock]_vars

\* The history screen is opened on a given log.
NextListing == RenderHistory

SpecListing == InitListing /\ [][NextListing]_vars

\* The timers and every event that could be taken to cancel one: adds,
\* deletions, clear-all, imports, resume events, the answers to the
\* permission request and the firings, within one run of the page.
NextTimers ==
    \/ Tick
    \/ \E granted \in BOOLEAN : CheckNotificationPermission(granted)
    \/ \E granted \in BOOLEAN : EnableNotifications(granted)
    \/ SkipNotifications
    \/ \E name \in MedNames, ts \in TimeLists : HandleMedicationSubmit(name, ts)
    \/ \E id \in StoredIds : DeleteMedication(id)
    \/ ClearAllData
    \/ ConfirmYes
    \/ ConfirmNo
    \/ \E file \in ImportFiles : ImportData(file)
    \/ \E documentHidden \in BOOLEAN : VisibilityChange(documentHidden)
    \/ \E tm \in BagToSet(timers) : TimerFires(tm)

SpecTimers == Init /\ [][NextTimers]_vars

\* The confirmation dialog and the three operations that open it, with the
\* adds and toggles that give them something to destroy.
NextDialog ==
    \/ Tick
    \/ \E name \in MedNames, ts \in TimeLists : HandleMedicationSubmit(name, ts)
    \/ \E id \in StoredIds, time \in DoseTimes : ToggleMedicationStatus(id, time)
    \/ \E id \in StoredIds : DeleteMedication(id)
    \/ ClearAllData
    \/ ConfirmYes
    \/ ConfirmNo

SpecDialog == Init /\ [][NextDialog]_vars

\* ------------------------------------------------------ notions of the claims
Today == toDateString(now)

\* The status of a slot today, read off the log.
statusOf(medicationId, time) ==
    IF isMedicationTakenToday(history, medicationId, time, now) THEN "taken" ELSE "unmarked"

\* (medicationId, time) designates one slot of the store: one medication has
\* that id and lists that time once.
UniqueSlot(medicationId, time) ==
    /\ Cardinality({i \in 1..Len(medications) : medications[i].id = medicationId}) = 1
    /\ timesContaining(findMedication(medications, medicationId).times, time) = 1

\* The outstanding timers of a (medication, time) pair, and their number.
TimersOf(medicationId, time) ==
    {tm \in BagToSet(timers) : tm.medication.id = medicationId /\ tm.time = time}

RECURSIVE SumCopies(_)
SumCopies(S) ==
    IF S = {} THEN 0
    ELSE LET tm == CHOOSE x \in S : TRUE
         IN CopiesIn(tm, timers) + SumCopies(S \ {tm})

OutstandingTimers(medicationId, time) == SumCopies(TimersOf(medicationId, time))

\* Every configured time of every stored medication has an armed timer.
AllArmed ==
    \A i \in 1..Len(medications) :
        \A k \in 1..Len(medications[i].times) :
            TimersOf(medications[i].id, medications[i].times[k]) # {}

\* The timers a step arms.
ArmedByStep == BagToSet(timers' (-) timers)

\* A reminder of the pair (medicationId, time) was shown on that day.
HasReminder(medicationId, time, day) ==
    BagIn([medicationId |-> medicationId, time |-> time, day |-> day], reminders)

\* The store holds a medication with that id that lists that time.
Configured(medicationId, time) ==
    \E i \in 1..Len(medications) :
        /\ medications[i].id = medicationId
        /\ timesContaining(medications[i].times, time) > 0

\* ------------------------------------------------------------------ claims

\* C1: no (medication, time) pair produces two reminders within one calendar
\* day, whatever resume events and timer firings occurred.  Stated for the
\* pairs that designate one slot of the store.
C1_OneReminderPerPairPerDay ==
    \A r \in BagToSet(reminders) :
        UniqueSlot(r.medicationId, r.time) => CopiesIn(r, reminders) <= 1

\* C2: each (medication, time) pair has at most one outstanding timer.
\* Stated for the pairs that designate one slot of the store.
C2_OneTimerPerPair ==
    \A id \in StoredIds : \A time \in DoseTimes :
        UniqueSlot(id, time) => OutstandingTimers(id, time) <= 1

\* C3: a timer that fires after its medication was deleted from the store
\* emits no reminder and is not armed again.
C3_FireAfterDeleteIsSilent ==
    [][\A tm \in BagToSet(timers) :
          (TimerFires(tm) /\ ~medicationKnown(medications, tm.medication.id))
          => /\ reminders' = reminders
             /\ \A time \in DoseTimes : TimersOf(tm.medication.id, time)' = {}]_vars

\* C4: once init() has completed with permission granted, and after every
\* resume event with permission granted, every configured time of every
\* stored medication has an armed timer.  The start considered is one that
\* follows a session in which reminders were already delivered, so that the
\* stored medications come from persistence.
C4_ArmedAfterStartAndResume ==
    [][/\ (CheckNotificationPermission(TRUE) /\ reminders # EmptyBag) => AllArmed'
       /\ (VisibilityChange(FALSE) /\ notificationPermission) => AllArmed']_vars

\* C5: two successive confirmed toggles of a slot of a known medication
\* within one day restore its status: a toggle of an unmarked slot leaves it
\* taken, and the confirmed toggle of a taken slot leaves it unmarked.
C5_ToggleTwiceRestores ==
    [][/\ \A id \in StoredIds : \A time \in DoseTimes :
             (statusOf(id, time) = "unmarked" /\ ToggleMedicationStatus(id, time))
             => statusOf(id, time)' = "taken"
       /\ (confirmDialog.kind = "undo" /\ ConfirmYes)
             => LET id == confirmDialog.medicationId
                    time == confirmDialog.time
                IN ~isMedicationTakenToday(history', id, time, now')]_vars

\* C5 witness: the second toggle of a slot marked by the first one awaits
\* its confirmation, the medication being in the store.
C5_Witness ==
    /\ confirmDialog.kind = "undo"
    /\ confirmDialog.medicationId \in StoredIds
    /\ statusOf(confirmDialog.medicationId, confirmDialog.time) = "taken"

\* C6: a slot is taken exactly when the log holds an entry with its
\* medication id, its time, today's day and action taken; entries of another
\* day and missed or skipped entries do not count.
C6_StatusIffTakenEntryToday ==
    \A id \in 0..MaxNow : \A time \in DoseTimes :
        statusOf(id, time) = "taken"
        <=> \E i \in 1..Len(history) :
                /\ history[i].medicationId = id
                /\ history[i].scheduledTime = time
                /\ history[i].date = Today
                /\ history[i].action = "taken"

\* C6 witness: a slot taken yesterday and marked missed or skipped today is
\* unmarked.
C6_Witness ==
    \E i \in 1..Len(history) : \E j \in 1..Len(history) :
        /\ history[i].action = "taken"
        /\ history[i].date < Today
        /\ history[j].action \in {"missed", "skipped"}
        /\ history[j].date = Today
        /\ history[j].medicationId = history[i].medicationId
        /\ history[j].scheduledTime = history[i].scheduledTime
        /\ statusOf(history[i].medicationId, history[i].scheduledTime) = "unmarked"

\* C7: after toggles and resolve-alls only, the log holds at most one taken
\* entry per (medication id, scheduled time, calendar day).
C7_OneTakenPerSlotPerDay ==
    \A i \in 1..Len(history) : \A j \in 1..Len(history) :
        (/\ history[i].action = "taken"
         /\ history[j].action = "taken"
         /\ history[i].medicationId = history[j].medicationId
         /\ history[i].scheduledTime = history[j].scheduledTime
         /\ history[i].date = history[j].date)
        => i = j

\* C7 witness: the same slot was marked taken on two different days.
C7_Witness ==
    \E i \in 1..Len(history) : \E j \in 1..Len(history) :
        /\ history[i].action = "taken"
        /\ history[j].action = "taken"
        /\ history[i].medicationId = history[j].medicationId
        /\ history[i].scheduledTime = history[j].scheduledTime
        /\ history[i].date < history[j].date

\* C8: resolveAllForTime(t) leaves every medication of the time group t
\* taken today and appends no entry for a medication whose slot was taken
\* before the call; the entries already in the log stay.
C8_ResolveAllMarksOnlyUnmarked ==
    [][\A time \in DoseTimes :
          ResolveAllForTime(time)
          => /\ \A i \in 1..Len(medications) :
                   timesContaining(medications[i].times, time) > 0
                   => statusOf(medications[i].id, time)' = "taken"
             /\ Len(history') >= Len(history)
             /\ SubSeq(history', 1, Len(history)) = history
             /\ \A k \in (Len(history) + 1)..Len(history') :
                   /\ history'[k].scheduledTime = time
                   /\ statusOf(history'[k].medicationId, time) = "unmarked"]_vars

\* C8 witness: a time group of two medications is all taken, the second
\* medication marked first (by a toggle, the resolve-all loop runs in store
\* order) and the first one marked afterwards by the resolve-all.
C8_Witness ==
    \E time \in DoseTimes :
        /\ Len(medications) = 2
        /\ medications[1].id # medications[2].id
        /\ \A i \in 1..2 : timesContaining(medications[i].times, time) = 1
        /\ Len(history) = 2
        /\ history[1].medicationId = medications[2].id
        /\ history[2].medicationId = medications[1].id
        /\ \A i \in 1..2 : statusOf(medications[i].id, time) = "taken"

\* C9: the confirmed undo of a taken slot removes the taken entries of
\* (medicationId, time, today) and nothing else: every other entry, the
\* missed and skipped entries of that slot and day among them, stays, and
\* none is appended.
C9_UndoRemovesTakenOnly ==
    [][(confirmDialog.kind = "undo" /\ ConfirmYes)
       => history' = SelectSeq(history,
                        LAMBDA entry : ~(/\ entry.medicationId = confirmDialog.medicationId
                                         /\ entry.scheduledTime = confirmDialog.time
                                         /\ entry.date = Today
                                         /\ entry.action = "taken"))]_vars

\* C10: arming a pair at instant now sets the timer for the first occurrence
\* of its time strictly after now: today's when still ahead, tomorrow's when
\* it has passed or is now.
C10_ArmTargetStrictlyAfterNow ==
    [][\A tm \in ArmedByStep :
          /\ tm.due > now
          /\ tm.due % TicksPerDay = tm.time
          /\ \A u \in (now + 1)..(tm.due - 1) : u % TicksPerDay # tm.time
          /\ (tm.time > now % TicksPerDay <=> toDateString(tm.due) = Today)
          /\ (tm.time <= now % TicksPerDay <=> toDateString(tm.due) = Today + 1)]_vars

\* C10 witness: one pair armed at its own time, for tomorrow, beside a pair
\* whose time is still ahead, armed for today.
C10_Witness ==
    \E a \in BagToSet(timers) : \E b \in BagToSet(timers) :
        /\ a.time = now % TicksPerDay
        /\ a.due = now + TicksPerDay
        /\ b.time > now % TicksPerDay
        /\ b.due > now
        /\ toDateString(b.due) = Today

\* C11: a timer that fires while the permission flag is false emits no
\* reminder and arms its (medication, time) pair again.
C11_SilentFireRearms ==
    [][\A tm \in BagToSet(timers) :
          (TimerFires(tm) /\ ~notificationPermission)
          => /\ reminders' = reminders
             /\ \E next \in ArmedByStep :
                   /\ next.medication = tm.medication
                   /\ next.time = tm.time
                   /\ next.due > now]_vars

\* C11, its case: a timer is outstanding while the permission flag is false.
C11_TimerWithoutPermission ==
    /\ timers # EmptyBag
    /\ ~notificationPermission

\* C12: once permission is granted, every configured time of a stored
\* medication that still lies ahead of the clock produces a reminder, also
\* for a medication added while the flag was false.  Stated for the ids that
\* designate one medication of the store.
C12_LateGrantReminds ==
    \A id \in 0..MaxNow : \A time \in DoseTimes :
        (/\ notificationPermission
         /\ Cardinality({i \in 1..Len(medications) : medications[i].id = id}) = 1
         /\ Configured(id, time)
         /\ \E u \in (now + 1)..MaxNow : u % TicksPerDay = time)
        ~> (\E day \in 0..MaxDay : HasReminder(id, time, day))

\* The pairs armed when their medication was added (its id is the instant of
\* the add) have produced a reminder at every occurrence of their time from
\* the add to the last modelled instant.
AllOccurrencesReminded ==
    \A i \in 1..Len(medications) : \A time \in DoseTimes :
        (/\ timesContaining(medications[i].times, time) > 0
         /\ TimersOf(medications[i].id, time) # {})
        => \A u \in (medications[i].id + 1)..MaxNow :
              u % TicksPerDay = time
              => HasReminder(medications[i].id, time, toDateString(u))

Occurrences(group, medication) ==
    Cardinality({k \in 1..Len(group) : group[k] = medication})

\* C14: a stored medication with N configured times is in exactly N time
\* groups, once in each, and each of these groups is keyed by one of its
\* times.  Stated for the medications the store holds once.
C14_OncePerConfiguredTime ==
    \A i \in 1..Len(medications) :
        LET medication == medications[i]
            group(time) == groupMedicationsByTime(medications, time)
        IN Cardinality({j \in 1..Len(medications) : medications[j] = medication}) = 1
           => /\ Cardinality({time \in DoseTimes :
                                Occurrences(group(time), medication) > 0})
                 = Len(medication.times)
              /\ \A time \in DoseTimes :
                    /\ Occurrences(group(time), medication) <= 1
                    /\ Occurrences(group(time), medication) > 0
                       => \E k \in 1..Len(medication.times) : medication.times[k] = time

\* C15: every medication of every time group is active.
C15_GroupsHoldActiveOnly ==
    \A time \in DoseTimes :
        LET group == groupMedicationsByTime(medications, time)
        IN \A k \in 1..Len(group) : group[k].isActive

\* A document one of whose top-level properties is missing or no container,
\* or a file that is no JSON document at all.
Malformed(file) ==
    \/ file.kind = "text"
    \/ /\ file.kind = "json"
       /\ \/ file.data.medications.kind # "array"
          \/ file.data.history.kind # "array"
          \/ file.data.settings.kind # "object"

\* C16: the import of a malformed document changes nothing: the store, the
\* log and the settings stay, in memory and as loadData reads them back.
C16_MalformedImportChangesNothing ==
    [][\A file \in ImportFiles \cup {exported} :
          (ImportData(file) /\ Malformed(file))
          => /\ UNCHANGED <<medications, history, settings>>
             /\ loadCollection(lsMedications') = loadCollection(lsMedications)
             /\ loadCollection(lsHistory') = loadCollection(lsHistory)
             /\ loadSettings(DefaultSettings, lsSettings')
                = loadSettings(DefaultSettings, lsSettings)]_vars

\* C17: the exported document, imported into an empty instance, gives the
\* due-today grouping and the slot statuses of the exporting instance; and
\* the import of an export on the day it was made leaves the instance, empty
\* or not, with the grouping and the statuses the document holds.
C17_ExportImportRoundTrip ==
    [][/\ ExportData
          => LET data == exported'.data
             IN /\ \A time \in DoseTimes :
                      groupMedicationsByTime(importMedications(<<>>, data), time)
                      = groupMedicationsByTime(medications, time)
                /\ \A id \in 0..MaxNow : \A time \in DoseTimes :
                      isMedicationTakenToday(importHistory(<<>>, data), id, time, now)
                      <=> statusOf(id, time) = "taken"
       /\ (/\ exported.kind = "json"
           /\ ImportData(exported)
           /\ toDateString(exported.data.exportDate) = Today)
          => LET data == exported.data
             IN /\ \A time \in DoseTimes :
                      groupMedicationsByTime(medications', time)
                      = groupMedicationsByTime(data.medications.value, time)
                /\ \A id \in 0..MaxNow : \A time \in DoseTimes :
                      isMedicationTakenToday(history', id, time, now')
                      <=> isMedicationTakenToday(data.history.value, id, time,
                                                 data.exportDate)]_vars

\* C17 witness: an export that holds a medication and a slot taken on the
\* day of the export is, later on that day, what the store and the log hold.
C17_Witness ==
    /\ exported.kind = "json"
    /\ exported.data.medications.value # <<>>
    /\ \E i \in 1..Len(exported.data.history.value) :
          /\ exported.data.history.value[i].action = "taken"
          /\ exported.data.history.value[i].date = Today
    /\ exported.data.exportDate < now
    /\ medications = exported.data.medications.value
    /\ history = exported.data.history.value

\* C18: the blobs of the store and of the log, read back as loadData reads
\* them (a missing blob is an empty collection), are the store and the log
\* in memory; hence a restart leaves the store and the log as they were.
C18_WriteThrough ==
    /\ [](/\ loadCollection(lsMedications) = medications
          /\ loadCollection(lsHistory) = history)
    /\ [][Start => /\ medications' = medications
                   /\ history' = history]_vars

\* C18 witness: an imported and an added medication are stored beside a
\* recorded entry, and the blobs hold them.
C18_Witness ==
    /\ Len(medications) = 2
    /\ medications[1] = InactiveMedication
    /\ medications[2].isActive
    /\ history # <<>>
    /\ ~lsMedications.missing
    /\ ~lsHistory.missing

\* C19: recordMedicationAction with an id that is not in the store changes
\* neither the log nor the store nor any blob.
C19_UnknownIdRecordsNothing ==
    [][\A id \in 0..MaxNow : \A action \in ActionKinds : \A time \in DoseTimes :
          (MarkMedication(id, action, time) /\ ~medicationKnown(medications, id))
          => UNCHANGED <<history, medications, lsMedications, lsHistory, lsSettings>>]_vars

\* C19 witness: the log refers to a medication that was deleted, so that its
\* id resolves to nothing.
C19_Witness ==
    \E i \in 1..Len(history) :
        /\ ~medicationKnown(medications, history[i].medicationId)
        /\ medications # <<>>

\* C20: a newly added medication never receives the id of a medication that
\* is in the store or that the log refers to; hence no two medications of
\* the store share an id.
C20_IdsNeverReused ==
    [][\A name \in MedNames : \A ts \in TimeLists :
          HandleMedicationSubmit(name, ts)
          => /\ medications'[Len(medications')].id \notin StoredIds
             /\ \A i \in 1..Len(history) :
                   history[i].medicationId # medications'[Len(medications')].id]_vars

\* C21: no two entries of the log share an id, whatever toggles and
\* resolve-alls recorded them, several at one instant included.
C21_LogIdsUnique ==
    \A i \in 1..Len(history) : \A j \in 1..Len(history) :
        history[i].id = history[j].id => i = j

\* C22: every medication the add form created has as many dose times as its
\* declared times per day, and its dose times are pairwise distinct.
C22_DeclaredAndDistinctTimes ==
    \A i \in 1..Len(medications) :
        /\ Len(medications[i].times) = medications[i].timesPerDay
        /\ \A k \in 1..Len(medications[i].times) :
              \A l \in 1..Len(medications[i].times) :
                 medications[i].times[k] = medications[i].times[l] => k = l

\* The forms the claim C23 calls invalid: a name of white space only (or
\* empty), no times per day selected, fewer filled time inputs than declared.
InvalidForm(form) ==
    \/ \A k \in 1..Len(form.name) : form.name[k] = " "
    \/ form.select = ""
    \/ Cardinality({k \in DOMAIN form.slots : form.slots[k] # NoValue})
       < parseInt(form.select)

\* C23: the submission of an invalid form changes neither the store nor the
\* blobs nor the timers (no step that changes one of them is the submission
\* of an invalid form), and no medication of the store is partial: each has
\* a name that is not blank, a positive number of times per day, and that
\* many dose times, each of them a time of day.
C23_InvalidSubmitChangesNothing ==
    /\ [][~UNCHANGED <<medications, history, lsMedications, lsHistory,
                       lsSettings, timers>>
          => \A form \in Forms : InvalidForm(form) => ~SubmitMedicationForm(form)]_vars
    /\ [](\A i \in 1..Len(medications) :
             /\ medications[i].name # <<>>
             /\ trim(medications[i].name) = medications[i].name
             /\ medications[i].timesPerDay >= 1
             /\ Len(medications[i].times) = medications[i].timesPerDay
             /\ \A k \in 1..Len(medications[i].times) :
                   medications[i].times[k] \in DoseTimes)

\* C23 witness: more submissions were made than medications are stored: a
\* form was rejected beside the one that was accepted and armed its timers.
C23_Witness ==
    /\ medications # <<>>
    /\ timers # EmptyBag
    /\ steps > now + Len(medications) + 1

\* C24: no step taken on a calendar day removes or changes a log entry of an
\* earlier day, the undo confirmed after midnight included; and the step that
\* begins a new day leaves every slot unmarked.
C24_PastDaysFrozen ==
    /\ [][LET past(entry) == entry.date < toDateString(now')
          IN SelectSeq(history', past) = SelectSeq(history, past)]_vars
    /\ [][toDateString(now') # Today
          => \A id \in 0..MaxNow : \A time \in DoseTimes :
                ~isMedicationTakenToday(history', id, time, now')]_vars

\* C24 witness: the undo dialog of a slot is open past midnight, the slot's
\* taken entry being of the day before.
C24_Witness ==
    /\ confirmDialog.kind = "undo"
    /\ \E i \in 1..Len(history) :
          /\ history[i].medicationId = confirmDialog.medicationId
          /\ history[i].scheduledTime = confirmDialog.time
          /\ history[i].action = "taken"
          /\ history[i].date < Today

\* A step leaves the status of every slot other than (medicationId, time)
\* as it was.
OtherSlotsKeepStatus(medicationId, time) ==
    \A other \in 0..MaxNow : \A otherTime \in DoseTimes :
        (other # medicationId \/ otherTime # time)
        => (isMedicationTakenToday(history', other, otherTime, now')
            <=> isMedicationTakenToday(history, other, otherTime, now))

\* C25: the toggle of a slot (medicationId, time), and the confirmed undo it
\* asks for when the slot is taken, leave the status of every other slot
\* unchanged: the other times of the medication, the same time of the others.
C25_ToggleLeavesOtherSlots ==
    [][/\ \A id \in StoredIds : \A time \in DoseTimes :
             ToggleMedicationStatus(id, time) => OtherSlotsKeepStatus(id, time)
       /\ (confirmDialog.kind = "undo" /\ ConfirmYes)
             => OtherSlotsKeepStatus(confirmDialog.medicationId,
                                     confirmDialog.time)]_vars

\* C25 witness: a slot is taken, while the other time of its medication and
\* the same time of another medication are unmarked.
C25_Witness ==
    \E i \in 1..Len(medications) : \E j \in 1..Len(medications) :
        \E time \in DoseTimes : \E otherTime \in DoseTimes :
            /\ medications[i].id # medications[j].id
            /\ time # otherTime
            /\ Configured(medications[i].id, time)
            /\ Configured(medications[i].id, otherTime)
            /\ Configured(medications[j].id, time)
            /\ statusOf(medications[i].id, time) = "taken"
            /\ statusOf(medications[i].id, otherTime) = "unmarked"
            /\ statusOf(medications[j].id, time) = "unmarked"

\* C26: the confirmed deletion of a medication leaves the log as it was, in
\* memory and as loadData reads it back; every entry that refers to the
\* deleted medication is still there and carries the medication's name.
C26_DeleteKeepsLog ==
    [][(confirmDialog.kind = "delete" /\ ConfirmYes)
       => /\ history' = history
          /\ loadCollection(lsHistory') = history
          /\ \A i \in 1..Len(history) :
                (/\ history[i].medicationId = confirmDialog.medicationId
                 /\ medicationKnown(medications, confirmDialog.medicationId))
                => /\ i <= Len(history')
                   /\ history'[i].medicationName
                      = findMedication(medications, confirmDialog.medicationId).name]_vars

\* C26 witness: after the deletion the store is empty, and the log and its
\* blob still hold an entry of the deleted medication.
C26_Witness ==
    /\ medications = <<>>
    /\ lsMedications = Stringify(<<>>)
    /\ confirmDialog = NoDialog
    /\ history # <<>>
    /\ loadCollection(lsHistory) = history

\* C27: while a setItem of saveData() throws, each mutation is still made in
\* memory and its operation runs to its end: the added medication is in the
\* store and its timers are armed, the toggled slot is taken, the undone slot
\* is unmarked, the deleted medication is gone; the blobs whose write was
\* refused or skipped are as they were.
C27_FailedSaveKeepsMutation ==
    [][writesAllowed < WritesPerSave
       => /\ \A name \in MedNames : \A ts \in TimeLists :
                HandleMedicationSubmit(name, ts)
                => LET added == medications'[Len(medications')]
                   IN /\ Len(medications') = Len(medications) + 1
                      /\ added.name = name
                      /\ added.times = SortTimes(ts)
                      /\ notificationPermission
                         => \E tm \in BagToSet(timers') : tm.medication = added
                      /\ writesAllowed = 0 => lsMedications' = lsMedications
          /\ \A id \in StoredIds : \A time \in DoseTimes :
                (statusOf(id, time) = "unmarked" /\ ToggleMedicationStatus(id, time))
                => /\ isMedicationTakenToday(history', id, time, now')
                   /\ writesAllowed < 2 => lsHistory' = lsHistory
          /\ (confirmDialog.kind = "undo" /\ ConfirmYes)
                => /\ ~isMedicationTakenToday(history', confirmDialog.medicationId,
                                              confirmDialog.time, now')
                   /\ writesAllowed < 2 => lsHistory' = lsHistory
          /\ (confirmDialog.kind = "delete" /\ ConfirmYes)
                => /\ ~medicationKnown(medications', confirmDialog.medicationId)
                   /\ writesAllowed = 0 => lsMedications' = lsMedications]_vars

\* C27 witness: while writes are refused, the store holds a medication with
\* its timers armed and the log holds an entry, and neither blob has them.
C27_Witness ==
    /\ writesAllowed < WritesPerSave
    /\ medications # <<>>
    /\ timers # EmptyBag
    /\ history # <<>>
    /\ loadCollection(lsMedications) # medications
    /\ loadCollection(lsHistory) # history

\* C28: the timer armed by the callback of a firing timer is set for the
\* occurrence of its time on the calendar day after the day of the fire,
\* whatever the wall clock reads when the callback runs.
C28_RearmTargetsNextDay ==
    [][\A tm \in BagToSet(timers) :
          TimerFires(tm)
          => \A next \in ArmedByStep :
                /\ next.time = tm.time
                /\ next.due % TicksPerDay = next.time
                /\ toDateString(next.due) = Today + 1]_vars

\* The place of an entry in the log (the entries of a listed log differ).
PlaceInLog(entry) == CHOOSE i \in 1..Len(history) : history[i] = entry

\* C29: the history listing holds the entries of the log by recorded instant,
\* latest first, and entries of one instant in the order of the log.
C29_ListingLatestFirstStable ==
    historyList # <<>>
    => /\ Len(historyList) = Len(history)
       /\ \A i \in 1..Len(history) : \E p \in 1..Len(historyList) :
             historyList[p] = history[i]
       /\ \A p \in 1..Len(historyList) : \A q \in (p + 1)..Len(historyList) :
             \/ historyList[p].actualTime > historyList[q].actualTime
             \/ /\ historyList[p].actualTime = historyList[q].actualTime
                /\ PlaceInLog(historyList[p]) < PlaceInLog(historyList[q])

\* C29 witness: a log of an early entry followed by two entries of one later
\* instant is listed with these two first, in their order of the log.
C29_Witness ==
    /\ Len(history) = 3
    /\ history[1].actualTime < history[2].actualTime
    /\ history[2].actualTime = history[3].actualTime
    /\ historyList = <<history[2], history[3], history[1]>>

\* C30: no step lowers the number of outstanding timers of a (medication,
\* time) pair: a firing replaces its timer by one of the same pair, and
\* deletions, clear-all and imports leave the timers alone.
C30_TimersNeverCancelled ==
    [][\A id \in 0..MaxNow : \A time \in DoseTimes :
          OutstandingTimers(id, time)' >= OutstandingTimers(id, time)]_vars

\* C30 witness: a pair whose timer has fired (its reminder was shown) has a
\* timer outstanding while its medication is no longer in the store.
C30_Witness ==
    \E tm \in BagToSet(timers) :
        /\ ~medicationKnown(medications, tm.medication.id)
        /\ \E day \in 0..MaxDay : HasReminder(tm.medication.id, tm.time, day)

\* The store, the log and their blobs.
DurableState == <<medications, history, lsMedications, lsHistory, lsSettings>>

\* C31: an undo, a deletion and a clear-all change nothing when their dialog
\* opens, and nothing when it is declined; the dialog then holds the action
\* requested last, and confirming performs that action and no other: the
\* deletion leaves the log, the undo leaves the store and the entries of the
\* other slots, and neither of them does what clear-all does.
C31_OnlyTheLastRequestRuns ==
    [][/\ \A id \in StoredIds :
             DeleteMedication(id)
             => /\ UNCHANGED DurableState
                /\ confirmDialog' = [kind |-> "delete", medicationId |-> id]
       /\ ClearAllData
             => /\ UNCHANGED DurableState
                /\ confirmDialog' = [kind |-> "clear"]
       /\ \A id \in StoredIds : \A time \in DoseTimes :
             (statusOf(id, time) = "taken" /\ ToggleMedicationStatus(id, time))
             => /\ UNCHANGED DurableState
                /\ confirmDialog' = [kind |-> "undo", medicationId |-> id,
                                     time |-> time]
       /\ ConfirmNo => UNCHANGED DurableState
       /\ (confirmDialog.kind = "delete" /\ ConfirmYes)
             => /\ ~medicationKnown(medications', confirmDialog.medicationId)
                /\ medications' = SelectSeq(medications,
                        LAMBDA med : med.id # confirmDialog.medicationId)
                /\ history' = history
       /\ (confirmDialog.kind = "undo" /\ ConfirmYes)
             => /\ ~isMedicationTakenToday(history', confirmDialog.medicationId,
                                           confirmDialog.time, now')
                /\ medications' = medications
                /\ OtherSlotsKeepStatus(confirmDialog.medicationId,
                                        confirmDialog.time)
       /\ (confirmDialog.kind = "clear" /\ ConfirmYes)
             => /\ medications' = <<>>
                /\ history' = <<>>]_vars

\* C31 witness: one medication was added and its slot taken, and two dialogs
\* were opened since, none answered: the second one, an undo, is the one open.
C31_Witness ==
    /\ confirmDialog.kind = "undo"
    /\ now = 0
    /\ Len(medications) = 1
    /\ Len(history) = 1
    /\ steps = 4
====
